---------------------------- MODULE Spec2Model ----------------------------
(***************************************************************************)
(* A model of ffmpeg.py: the collision-avoiding output path generator, the *)
(* three conversion commands and the command dispatch of main, run against *)
(* a filesystem that other processes may change.                           *)
(*                                                                         *)
(* Strings are sequences of one-character strings, so that the path        *)
(* operations (dirname, basename, splitext, join, the "_<index>" suffix)   *)
(* are computed as the code computes them.                                 *)
(***************************************************************************)
EXTENDS Integers, Sequences, FiniteSets

(***************************************************************************)
(* Bounds of the model.                                                    *)
(***************************************************************************)
\* Highest suffix index of a file present in an initial directory snapshot.
MaxIndex == 5
\* Number of leading candidates (base, base_1, ...) present when main starts.
MaxPre == 1
\* Number of changes other processes make to the filesystem during one run.
MaxEnvSteps == 1

(***************************************************************************)
(* Strings.                                                                *)
(***************************************************************************)
Empty == << >>
Dot == <<".">>
Slash == <<"/">>
Underscore == <<"_">>

\* None (an absent optional argument, an attribute argparse did not set).
None == <<"<None>">>

Digits == <<"0", "1", "2", "3", "4", "5", "6", "7", "8", "9">>

RECURSIVE ToStr(_)
\* str(n) for n >= 0, as the f-string of the suffix formats the index.
ToStr(n) ==
    IF n < 10 THEN <<Digits[n + 1]>>
    ELSE ToStr(n \div 10) \o <<Digits[(n % 10) + 1]>>

\* s.startswith(prefix)
StartsWith(s, prefix) ==
    /\ Len(s) >= Len(prefix)
    /\ SubSeq(s, 1, Len(prefix)) = prefix

\* s.rfind(c) + 1: the 1-based position of the last c in s, 0 when absent.
RFind(s, c) ==
    LET hits == {i \in 1..Len(s) : s[i] = c}
    IN  IF hits = {} THEN 0 ELSE CHOOSE i \in hits : \A j \in hits : j <= i

RECURSIVE RStripSlash(_)
\* head.rstrip("/")
RStripSlash(s) ==
    IF s # Empty /\ s[Len(s)] = "/" THEN RStripSlash(SubSeq(s, 1, Len(s) - 1))
    ELSE s

\* posixpath.dirname
Dirname(p) ==
    LET i == RFind(p, "/")
        head == SubSeq(p, 1, i)
    IN  IF head # Empty /\ \E k \in 1..Len(head) : head[k] # "/"
        THEN RStripSlash(head)
        ELSE head

\* posixpath.basename
Basename(p) == SubSeq(p, RFind(p, "/") + 1, Len(p))

\* posixpath.splitext(p)[0]: the root is cut at the last dot after the last
\* separator, unless only dots precede it in the file name.
SplitextRoot(p) ==
    LET sepIndex == RFind(p, "/")
        dotIndex == RFind(p, ".")
    IN  IF /\ dotIndex > sepIndex
           /\ \E k \in (sepIndex + 1)..(dotIndex - 1) : p[k] # "."
        THEN SubSeq(p, 1, dotIndex - 1)
        ELSE p

\* posixpath.join(a, b)
Join(a, b) ==
    IF StartsWith(b, Slash) THEN b
    ELSE IF a = Empty \/ a[Len(a)] = "/" THEN a \o b
    ELSE a \o Slash \o b

(***************************************************************************)
(* The strings of the model: file names, extensions, encoder arguments.    *)
(***************************************************************************)
S_ffmpeg == <<"f", "f", "m", "p", "e", "g">>
S_y == <<"-", "y">>
S_i == <<"-", "i">>
S_vn == <<"-", "v", "n">>
S_cv == <<"-", "c", ":", "v">>
S_ca == <<"-", "c", ":", "a">>
S_ba == <<"-", "b", ":", "a">>
S_aac == <<"a", "a", "c">>
S_libx264 == <<"l", "i", "b", "x", "2", "6", "4">>
S_192k == <<"1", "9", "2", "k">>
S_mp4 == <<".", "m", "p", "4">>
S_mp4NoDot == <<"m", "p", "4">>
S_m4a == <<".", "m", "4", "a">>
S_mov == <<".", "m", "o", "v">>
S_a == <<"a">>
S_o == <<"o">>
S_d == <<"d">>
S_a1 == <<"a", "_", "1">>
\* a.mov in the current directory, a.mov in directory d, d itself, and a file
\* of the current directory named like an encoder option.
P_a_mov == S_a \o S_mov
P_d_a_mov == S_d \o Slash \o S_a \o S_mov
P_d == S_d
P_vn == S_vn

(***************************************************************************)
(* The state.                                                              *)
(***************************************************************************)
VARIABLES
    fs,            \* the filesystem: the paths that exist, relative to the
                   \* working directory, without a leading "./"
    argv,          \* the command line
    args,          \* the argparse namespace (line 220), None before parsing
    pc,            \* the place the program is at
    gen,           \* the locals of generate_output_path
    result,        \* output_path of the running convert_* / extract_audio
    probed,        \* history: the paths os.path.exists was asked in the loop
    allocs,        \* history: completed calls of generate_output_path
    fsAtAlloc,     \* history: the filesystem when generate_output_path returned
    invoked,       \* history: the argument vectors run_ffmpeg was given
    encoder,       \* how the encoder subprocess of run_ffmpeg ended
    overwrote,     \* history: the encoder wrote over a file that existed
    writes,        \* history: the paths the program's encoder wrote
    ffmpegOk,      \* how check_ffmpeg ended
    parsed,        \* parse_args has run
    inputFound,    \* the result of the input existence check of main
    helpPrinted,   \* print_help has run
    errors,        \* number of error reports written to stderr
    exitStatus,    \* the process exit status, -1 while running
    envSteps,      \* number of filesystem changes made by other processes
    envCreated     \* history: the paths other processes created

vars == <<fs, argv, args, pc, gen, result, probed, allocs, fsAtAlloc, invoked,
          encoder, overwrote, writes, ffmpegOk, parsed, inputFound,
          helpPrinted, errors, exitStatus, envSteps, envCreated>>

genVars == <<gen, result, probed, allocs, fsAtAlloc>>
runVars == <<invoked, encoder, overwrote, writes>>
mainVars == <<ffmpegOk, parsed, inputFound, helpPrinted, errors, exitStatus>>
envVars == <<envSteps, envCreated>>

(***************************************************************************)
(* The filesystem.                                                         *)
(***************************************************************************)
RECURSIVE Normalize(_)
\* The file a relative path names: "./x" names the file "x".
Normalize(p) ==
    IF Len(p) >= 2 /\ p[1] = "." /\ p[2] = "/"
    THEN Normalize(SubSeq(p, 3, Len(p)))
    ELSE p

\* os.path.exists(p)
Exists(p) == Normalize(p) \in fs

(***************************************************************************)
(* generate_output_path.                                                   *)
(***************************************************************************)
\* Lines 41-42: the extension always starts with a dot.
NormalizeExt(output_ext) ==
    IF ~StartsWith(output_ext, Dot) THEN Dot \o output_ext ELSE output_ext

\* Line 45: os.path.dirname(input_path) or "."
InputDir(input_path) ==
    IF Dirname(input_path) # Empty THEN Dirname(input_path) ELSE Dot

\* Lines 48-51: the given name, or the input's file name without extension.
BaseName(input_path, output_name) ==
    IF output_name # None /\ output_name # Empty THEN output_name
    ELSE SplitextRoot(Basename(input_path))

\* The suffix with the comparison of line 56 off by one: "_0" for index 0.
SuffixFromZero(index) ==
    IF index >= 0 THEN Underscore \o ToStr(index) ELSE Empty

\* Line 56: no suffix for index 0, "_<index>" after it.
Suffix(index) == IF index > 0 THEN Underscore \o ToStr(index) ELSE Empty

\* The loop without its existence test: the first candidate is taken.
PathFreeAlways(output_path) == TRUE

\* Line 59: the candidate is taken when nothing exists at its path.
PathFree(output_path) == ~Exists(output_path)

\* The increment of the loop stepping over a candidate.
NextIndexSkips(index) == index + 2

\* Line 61: index += 1
NextIndex(index) == index + 1

\* Lines 57-58: the candidate path of an index.
Candidate(input_dir, base_name, output_ext, index) ==
    Join(input_dir, base_name \o Suffix(index) \o output_ext)

NoGen == [output_ext |-> None, input_dir |-> None, base_name |-> None,
          index |-> 0, output_path |-> None]

\* Lines 41-54: the call of generate_output_path(args.input, args.ext,
\* args.output), up to the loop.
GenEnter ==
    /\ pc = "gen"
    /\ gen' = [output_ext  |-> NormalizeExt(args.ext),
               input_dir   |-> InputDir(args.input),
               base_name   |-> BaseName(args.input, args.output),
               index       |-> 0,
               output_path |-> None]
    /\ pc' = "probe"
    /\ UNCHANGED <<fs, argv, args, result, probed, allocs, fsAtAlloc>>
    /\ UNCHANGED <<runVars, mainVars, envVars>>

\* Lines 55-61: one turn of the loop. The candidate is returned when no file
\* is there, and the index goes up by one when one is.
Probe ==
    /\ pc = "probe"
    /\ LET output_path == Candidate(gen.input_dir, gen.base_name,
                                    gen.output_ext, gen.index)
       IN  /\ probed' = Append(probed, output_path)
           /\ \/ /\ PathFree(output_path)
                 /\ gen' = [gen EXCEPT !.output_path = output_path]
                 /\ result' = output_path
                 /\ allocs' = allocs + 1
                 /\ fsAtAlloc' = fs
                 /\ pc' = "allocated"
              \/ /\ ~PathFree(output_path)
                 /\ gen' = [gen EXCEPT !.output_path = output_path,
                                       !.index = NextIndex(gen.index)]
                 /\ pc' = "probe"
                 /\ UNCHANGED <<result, allocs, fsAtAlloc>>
    /\ UNCHANGED <<fs, argv, args>>
    /\ UNCHANGED <<runVars, mainVars, envVars>>

(***************************************************************************)
(* The encoder argument vectors.                                           *)
(***************************************************************************)
\* Line 113 (convert_video).
VideoCmd(a, output_path) ==
    <<S_ffmpeg, S_y, S_i, a.input, S_cv, a.vcodec, S_ca, a.acodec, output_path>>

\* Lines 137-138 and 168-169: the bitrate is added when it is given.
BitrateArgs(a) ==
    IF a.bitrate # None /\ a.bitrate # Empty THEN <<S_ba, a.bitrate>> ELSE << >>

\* Lines 134-141 (convert_audio).
AudioCmd(a, output_path) ==
    <<S_ffmpeg, S_y, S_i, a.input, S_ca, a.acodec>>
        \o BitrateArgs(a) \o <<output_path>>

\* extract_audio built like convert_video: the video stream is kept.
ExtractCmdKeepsVideo(a, output_path) ==
    <<S_ffmpeg, S_y, S_i, a.input, S_cv, S_libx264>> \o <<S_ca, a.acodec>>
        \o BitrateArgs(a) \o <<output_path>>

\* Lines 162-172 (extract_audio).
ExtractCmd(a, output_path) ==
    <<S_ffmpeg, S_y, S_i, a.input, S_vn>> \o <<S_ca, a.acodec>>
        \o BitrateArgs(a) \o <<output_path>>

\* The vector of the command that runs.
BuildCmd(a, output_path) ==
    CASE a.command = "video" -> VideoCmd(a, output_path)
      [] a.command = "audio" -> AudioCmd(a, output_path)
      [] a.command = "extract" -> ExtractCmd(a, output_path)

(***************************************************************************)
(* The process exit.                                                       *)
(***************************************************************************)
\* sys.exit(status), with `reports` more error reports written before it.
Exit(status, reports) ==
    /\ pc' = "done"
    /\ exitStatus' = status
    /\ errors' = errors + reports

\* How subprocess.run(cmd, check=True) of line 76 can end: the encoder exits
\* with status 0, it exits with another status (CalledProcessError), or it
\* cannot be started (an OSError, which run_ffmpeg does not catch).
EncoderOutcomes == {"exit0", "exit1", "oserror"}

\* Lines 110-116, 131-144, 159-175: the command is built around the allocated
\* path and run_ffmpeg runs it. With status 0 the encoder has written the
\* output; with another status it may have left a partial file.
RunFfmpeg ==
    /\ pc = "allocated"
    /\ LET cmd == BuildCmd(args, result)
           out == Normalize(cmd[Len(cmd)])
       IN  /\ invoked' = Append(invoked, cmd)
           /\ \E e \in EncoderOutcomes :
                /\ encoder' = e
                /\ \/ /\ e = "exit0"
                      /\ fs' = fs \cup {out}
                      /\ writes' = writes \cup {out}
                      /\ overwrote' = (out \in fs)
                      /\ pc' = "report"
                      /\ UNCHANGED <<errors, exitStatus>>
                   \/ /\ e = "exit1"
                      /\ \E written \in BOOLEAN :
                           /\ fs' = IF written THEN fs \cup {out} ELSE fs
                           /\ writes' = IF written THEN writes \cup {out}
                                        ELSE writes
                           /\ overwrote' = (written /\ out \in fs)
                      \* lines 79-81, then line 247 with success = False
                      /\ Exit(1, 1)
                   \/ /\ e = "oserror"
                      /\ UNCHANGED <<fs, writes, overwrote>>
                      \* lines 249-251
                      /\ Exit(1, 1)
    /\ UNCHANGED <<argv, args, ffmpegOk, parsed, inputFound, helpPrinted>>
    /\ UNCHANGED <<genVars, envVars>>

(***************************************************************************)
(* print_file_info, one step for each look at the filesystem.              *)
(***************************************************************************)
\* Line 92: the sizes are reported when the output exists. Without it the
\* command returns True and main exits with 0 (line 247).
ReportExists ==
    /\ pc = "report"
    /\ \/ /\ Exists(result)
          /\ pc' = "size_in"
          /\ UNCHANGED <<errors, exitStatus>>
       \/ /\ ~Exists(result)
          /\ Exit(0, 0)
    /\ UNCHANGED <<fs, argv, args, ffmpegOk, parsed, inputFound, helpPrinted>>
    /\ UNCHANGED <<genVars, runVars, envVars>>

\* Line 93: os.path.getsize(input_path) raises OSError when the input is
\* gone, which line 249 catches: the process exits with 1.
ReportInputSize ==
    /\ pc = "size_in"
    /\ \/ /\ Exists(args.input)
          /\ pc' = "size_out"
          /\ UNCHANGED <<errors, exitStatus>>
       \/ /\ ~Exists(args.input)
          /\ Exit(1, 1)
    /\ UNCHANGED <<fs, argv, args, ffmpegOk, parsed, inputFound, helpPrinted>>
    /\ UNCHANGED <<genVars, runVars, envVars>>

\* Lines 94-99, then lines 119 and 247: os.path.getsize(output_path) raises
\* when the output is gone; otherwise the sizes are printed and the process
\* exits with 0.
ReportOutputSize ==
    /\ pc = "size_out"
    /\ \/ /\ Exists(result)
          /\ Exit(0, 0)
       \/ /\ ~Exists(result)
          /\ Exit(1, 1)
    /\ UNCHANGED <<fs, argv, args, ffmpegOk, parsed, inputFound, helpPrinted>>
    /\ UNCHANGED <<genVars, runVars, envVars>>

(***************************************************************************)
(* main.                                                                   *)
(***************************************************************************)
\* How check_ffmpeg can end: `ffmpeg -version` succeeds; it fails or is not
\* found (lines 24-25, False is returned); or subprocess.run raises another
\* OSError (a binary that may not be executed), which nothing catches: the
\* interpreter prints the traceback and exits with status 1.
CheckOutcomes == {"ok", "unavailable", "raised"}

\* main without the sys.exit of line 187: the error is reported and the
\* program goes on.
CheckFfmpegNoExit ==
    /\ pc = "start"
    /\ \E r \in CheckOutcomes :
         /\ ffmpegOk' = r
         /\ errors' = IF r = "ok" THEN errors ELSE errors + 1
    /\ pc' = "parse"
    /\ UNCHANGED <<fs, argv, args, parsed, inputFound, helpPrinted, exitStatus>>
    /\ UNCHANGED <<genVars, runVars, envVars>>

\* Lines 185-187.
CheckFfmpeg ==
    /\ pc = "start"
    /\ \E r \in CheckOutcomes :
         /\ ffmpegOk' = r
         /\ \/ /\ r = "ok"
               /\ pc' = "parse"
               /\ UNCHANGED <<errors, exitStatus>>
            \/ /\ r # "ok"
               /\ Exit(1, 1)
    /\ UNCHANGED <<fs, argv, args, parsed, inputFound, helpPrinted>>
    /\ UNCHANGED <<genVars, runVars, envVars>>

\* args.command when no subcommand is given (None in the code).
NoCommand == "none"

NoArgs == [command |-> NoCommand, input |-> None, ext |-> None, vcodec |-> None,
           acodec |-> None, bitrate |-> None, output |-> None]

\* An option's value, or its default when the command line leaves it out.
OrDefault(given, default) == IF given = None THEN default ELSE given

\* Lines 190-220: the namespace parse_args builds. Without a subcommand it
\* holds the command alone; the video parser knows no bitrate and the other
\* two no video codec.
Namespace(cl) ==
    CASE cl.command = "video" ->
           [command |-> "video", input |-> cl.input,
            ext |-> OrDefault(cl.ext, S_mp4),
            vcodec |-> OrDefault(cl.vcodec, S_libx264),
            acodec |-> OrDefault(cl.acodec, S_aac),
            bitrate |-> None, output |-> cl.output]
      [] cl.command \in {"audio", "extract"} ->
           [command |-> cl.command, input |-> cl.input,
            ext |-> OrDefault(cl.ext, S_m4a),
            vcodec |-> None,
            acodec |-> OrDefault(cl.acodec, S_aac),
            bitrate |-> OrDefault(cl.bitrate, S_192k), output |-> cl.output]
      [] OTHER -> NoArgs

\* The legacy mode without its hasattr test.
LegacyModeAlways(a) ==
    IF a.command = NoCommand THEN [a EXCEPT !.command = "video"] ELSE a

\* Lines 223-224: without a command, a namespace that has an input is taken
\* as a video command.
LegacyMode(a) ==
    IF a.command = NoCommand /\ a.input # None
    THEN [a EXCEPT !.command = "video"] ELSE a

\* Lines 190-224.
ParseArgs ==
    /\ pc = "parse"
    /\ args' = LegacyMode(Namespace(argv))
    /\ parsed' = TRUE
    /\ pc' = "dispatch"
    /\ UNCHANGED <<fs, argv, ffmpegOk, inputFound, helpPrinted, errors,
                   exitStatus>>
    /\ UNCHANGED <<genVars, runVars, envVars>>

\* The dispatch without the sys.exit of lines 231, 236 and 241: a missing
\* input is reported and the conversion runs.
DispatchNoExit ==
    /\ pc = "dispatch"
    /\ \/ /\ args.command \in {"video", "audio", "extract"}
          /\ inputFound' = IF Exists(args.input) THEN "yes" ELSE "no"
          /\ errors' = IF Exists(args.input) THEN errors ELSE errors + 1
          /\ pc' = "gen"
          /\ UNCHANGED <<helpPrinted, exitStatus>>
       \/ /\ args.command \notin {"video", "audio", "extract"}
          /\ helpPrinted' = TRUE
          /\ pc' = "done"
          /\ exitStatus' = 0
          /\ UNCHANGED <<inputFound, errors>>
    /\ UNCHANGED <<fs, argv, args, ffmpegOk, parsed>>
    /\ UNCHANGED <<genVars, runVars, envVars>>

\* Lines 228-245: a command with a missing input ends the process with
\* status 1, one with an existing input runs its conversion, and anything
\* else prints the help and exits with status 0.
Dispatch ==
    /\ pc = "dispatch"
    /\ \/ /\ args.command \in {"video", "audio", "extract"}
          /\ ~Exists(args.input)
          /\ inputFound' = "no"
          /\ Exit(1, 1)
          /\ UNCHANGED helpPrinted
       \/ /\ args.command \in {"video", "audio", "extract"}
          /\ Exists(args.input)
          /\ inputFound' = "yes"
          /\ pc' = "gen"
          /\ UNCHANGED <<helpPrinted, errors, exitStatus>>
       \/ /\ args.command \notin {"video", "audio", "extract"}
          /\ helpPrinted' = TRUE
          /\ Exit(0, 0)
          /\ UNCHANGED inputFound
    /\ UNCHANGED <<fs, argv, args, ffmpegOk, parsed>>
    /\ UNCHANGED <<genVars, runVars, envVars>>

(***************************************************************************)
(* Other processes. They change the filesystem while the program looks at  *)
(* it, from the input check of main on: a change made earlier is another   *)
(* initial filesystem.                                                     *)
(***************************************************************************)
\* The output names a second run of the same command line would try.
RacePaths ==
    IF args.command \notin {"video", "audio", "extract"} THEN {}
    ELSE {Normalize(Candidate(InputDir(args.input),
                              BaseName(args.input, args.output),
                              NormalizeExt(args.ext), i)) : i \in 0..(MaxPre + 1)}

EnvActive ==
    /\ pc \in {"dispatch", "gen", "probe", "allocated", "report", "size_in",
               "size_out"}
    /\ envSteps < MaxEnvSteps

\* Another process creates a file.
EnvCreate ==
    /\ EnvActive
    /\ \E p \in RacePaths \ fs :
         /\ fs' = fs \cup {p}
         /\ envCreated' = envCreated \cup {p}
    /\ envSteps' = envSteps + 1
    /\ UNCHANGED <<argv, args, pc>>
    /\ UNCHANGED <<genVars, runVars, mainVars>>

\* Another process removes a file (not a directory that holds one).
EnvRemove ==
    /\ EnvActive
    /\ \E p \in fs :
         /\ \A q \in fs : ~StartsWith(q, p \o Slash)
         /\ fs' = fs \ {p}
    /\ envSteps' = envSteps + 1
    /\ UNCHANGED <<argv, args, pc, envCreated>>
    /\ UNCHANGED <<genVars, runVars, mainVars>>

(***************************************************************************)
(* The initial states.                                                     *)
(***************************************************************************)
\* The input paths of the command lines.
Inputs == {P_a_mov, P_d_a_mov, P_d, P_vn}

\* The command lines: none, and the three commands with their options.
Argvs ==
    {NoArgs}
    \cup {[NoArgs EXCEPT !.command = "video", !.input = i, !.ext = e,
                         !.output = o] :
            i \in Inputs, e \in {None, S_mp4NoDot}, o \in {None, S_o}}
    \cup {[NoArgs EXCEPT !.command = "audio", !.input = i, !.bitrate = b] :
            i \in Inputs, b \in {None, Empty}}
    \cup {[NoArgs EXCEPT !.command = "extract", !.input = i, !.acodec = c,
                         !.bitrate = b] :
            i \in Inputs, c \in {None, S_vn, S_cv}, b \in {None, Empty}}

\* The first k default output names of a.mov, in both default extensions.
PreExisting(k) ==
    {Normalize(Candidate(Dot, S_a, e, i)) : e \in {S_mp4, S_m4a}, i \in 0..(k - 1)}

\* The filesystems main starts on: the files of the working directory, the
\* directory d with its file, and the first output names taken or not.
InitialFs ==
    {cwd \cup dir \cup PreExisting(k) :
        cwd \in {{}, {P_a_mov, P_vn}},
        dir \in {{}, {P_d, P_d_a_mov}},
        k \in 0..MaxPre}

InitCommon ==
    /\ gen = NoGen
    /\ result = None
    /\ probed = << >>
    /\ allocs = 0
    /\ fsAtAlloc = {}
    /\ invoked = << >>
    /\ encoder = "none"
    /\ overwrote = FALSE
    /\ writes = {}
    /\ inputFound = "unknown"
    /\ helpPrinted = FALSE
    /\ errors = 0
    /\ exitStatus = -1
    /\ envSteps = 0
    /\ envCreated = {}

\* The process starts: nothing is parsed yet.
Init ==
    /\ pc = "start"
    /\ argv \in Argvs
    /\ args = NoArgs
    /\ fs \in InitialFs
    /\ ffmpegOk = "unknown"
    /\ parsed = FALSE
    /\ InitCommon

Next ==
    \/ CheckFfmpeg
    \/ ParseArgs
    \/ Dispatch
    \/ GenEnter
    \/ Probe
    \/ RunFfmpeg
    \/ ReportExists
    \/ ReportInputSize
    \/ ReportOutputSize
    \/ EnvCreate
    \/ EnvRemove

Spec == Init /\ [][Next]_vars

(***************************************************************************)
(* generate_output_path alone, on a directory snapshot that does not       *)
(* change during the call.                                                 *)
(***************************************************************************)
\* The arguments of the call: input path, extension, output name.
GenArgs ==
    {[NoArgs EXCEPT !.command = "video", !.input = i, !.ext = e, !.output = o] :
        i \in {P_a_mov, P_d_a_mov, P_d, S_a},
        e \in {S_mp4, S_mp4NoDot, S_mov},
        o \in {None, S_o, S_a1}}

\* The snapshots: in one directory, the files <base>_<i><ext> of any set of
\* indices up to MaxIndex (index 0 without suffix).
Snapshots ==
    {{Normalize(Candidate(dir, base, e, i)) : i \in I} :
        dir \in {Dot, S_d}, base \in {S_a, S_o}, e \in {S_mp4, S_mov},
        I \in SUBSET (0..MaxIndex)}

SnapshotInit ==
    /\ pc = "gen"
    /\ argv \in GenArgs
    /\ args = argv
    /\ fs \in Snapshots
    /\ ffmpegOk = "ok"
    /\ parsed = TRUE
    /\ InitCommon

SnapshotNext == GenEnter \/ Probe

SnapshotSpec == SnapshotInit /\ [][SnapshotNext]_vars

\* The loop is not held up: the interpreter runs it to its return.
FairSnapshotSpec == SnapshotSpec /\ WF_vars(SnapshotNext)

(***************************************************************************)
(* What the properties are stated with. None of these is used by the       *)
(* actions above.                                                          *)
(***************************************************************************)
\* The candidate name of an index, as the contract words it: the base name,
\* "_<index>" from index 1 on, the extension, in the input's directory.
NameOfIndex(i) ==
    Join(gen.input_dir,
         gen.base_name \o (IF i = 0 THEN Empty ELSE Underscore \o ToStr(i))
                       \o gen.output_ext)

\* The indices whose candidate name is that of an existing file.
CollidingIndices ==
    {i \in 0..(MaxIndex + 1) : Normalize(NameOfIndex(i)) \in fs}

\* The smallest index whose candidate name is free.
FirstFreeIndex ==
    CHOOSE k \in 0..(MaxIndex + 2) :
        /\ Normalize(NameOfIndex(k)) \notin fs
        /\ \A i \in 0..(k - 1) : Normalize(NameOfIndex(i)) \in fs

\* ./a_5.mp4 and the five names before it.
P_out_a5 == <<".", "/", "a", "_", "5", ".", "m", "p", "4">>
FirstFiveOfA ==
    {<<"a">> \o S_mp4, <<"a", "_", "1">> \o S_mp4, <<"a", "_", "2">> \o S_mp4,
     <<"a", "_", "3">> \o S_mp4, <<"a", "_", "4">> \o S_mp4}

\* The number of elements of a vector equal to x.
Count(v, x) == Cardinality({n \in 1..Len(v) : v[n] = x})

\* The extension of a path (the second half of splitext).
ExtOf(p) == SubSeq(p, Len(SplitextRoot(p)) + 1, Len(p))

\* The directories of the model's filesystems, and the video extensions.
Directories == {P_d}
VideoExts == {S_mov, S_mp4}

\* The video files directly inside a directory.
VideoFilesIn(dir) ==
    {q \in fs : Dirname(q) = dir /\ ExtOf(q) \in VideoExts}

\* The input paths of the conversions the encoder was invoked for.
InvokedInputs == {invoked[n][4] : n \in 1..Len(invoked)}

\* The strings of an extract command that the user chooses.
UserStrings(a) == {a.input, a.acodec, a.bitrate}

NothingAllocatedOrRun ==
    /\ allocs = 0
    /\ probed = << >>
    /\ result = None
    /\ invoked = << >>
    /\ writes = {}

(***************************************************************************)
(* C1. generate_output_path returns a path at which nothing exists, on any *)
(* directory snapshot that does not change during the call.                *)
(***************************************************************************)
C1_ReturnedPathIsFree ==
    pc = "allocated" => Normalize(result) \notin fs

\* A call that had to pass existing files.
C1_Witness ==
    /\ pc = "allocated"
    /\ gen.index >= 2
    /\ Normalize(NameOfIndex(1)) \in fs

(***************************************************************************)
(* C2. The candidates base, base_1, base_2, ... are probed in this order   *)
(* and the first free one is returned: every candidate of a smaller index  *)
(* exists, index 0 has no suffix, and with a.mp4, a_1.mp4, ..., a_4.mp4    *)
(* present (and a_5.mp4 not) the result for a.mov is ./a_5.mp4.            *)
(***************************************************************************)
C2_FirstFreeCandidate ==
    pc = "allocated" =>
        LET k == Len(probed) - 1
        IN  /\ k >= 0
            /\ \A i \in 0..k : probed[i + 1] = NameOfIndex(i)
            /\ \A i \in 0..(k - 1) : Normalize(NameOfIndex(i)) \in fs
            /\ Normalize(NameOfIndex(k)) \notin fs
            /\ result = NameOfIndex(k)
            /\ (k = 0 => result = Join(gen.input_dir,
                                       gen.base_name \o gen.output_ext))
            /\ (/\ args.input = P_a_mov
                /\ args.output = None
                /\ args.ext \in {S_mp4, S_mp4NoDot}
                /\ FirstFiveOfA \subseteq fs
                /\ Normalize(P_out_a5) \notin fs
                => result = P_out_a5)

\* a.mp4 and a_1.mp4 to a_4.mp4 are present and ./a_5.mp4 is returned.
C2_Witness ==
    /\ pc = "allocated"
    /\ FirstFiveOfA \subseteq fs
    /\ result = P_out_a5

(***************************************************************************)
(* C9. On a fixed directory snapshot generate_output_path returns, after   *)
(* at most (number of existing candidates + 1) probes, the path of the     *)
(* smallest free index: a function of its arguments and the snapshot.      *)
(***************************************************************************)
C9_TerminatesWithinBound ==
    <>(/\ pc = "allocated"
       /\ Len(probed) <= Cardinality(CollidingIndices) + 1
       /\ result = NameOfIndex(FirstFreeIndex))

\* A call that needed every probe the bound allows.
C9_Witness ==
    /\ pc = "allocated"
    /\ Len(probed) >= 3
    /\ Len(probed) = Cardinality(CollidingIndices) + 1

(***************************************************************************)
(* C3. For a command whose input exists and whose encoder check passed,    *)
(* the process exits with 0 exactly when the encoder exited with 0.        *)
(***************************************************************************)
C3_ExitIffEncoder ==
    (pc = "done" /\ ffmpegOk = "ok" /\ inputFound = "yes")
        => (exitStatus = 0 <=> encoder = "exit0")

(***************************************************************************)
(* C4. When the encoder availability check fails, the error is reported    *)
(* once and the process exits with 1 at once: nothing is parsed, no input  *)
(* is looked for, no path is allocated, the encoder converts nothing.      *)
(***************************************************************************)
C4_FailedCheckExitsBeforeWork ==
    ffmpegOk \in {"unavailable", "raised"} =>
        /\ pc = "done"
        /\ exitStatus = 1
        /\ errors = 1
        /\ ~parsed
        /\ args = NoArgs
        /\ inputFound = "unknown"
        /\ ~helpPrinted
        /\ NothingAllocatedOrRun

\* The check fails for a command line that would otherwise convert.
C4_Witness ==
    /\ ffmpegOk = "unavailable"
    /\ argv.command = "video"
    /\ argv.input \in fs
    /\ pc = "done"

(***************************************************************************)
(* C5. With a directory as the input of the video command, the encoder is  *)
(* invoked for each video file directly inside it and never with the       *)
(* directory itself as its input path.                                     *)
(***************************************************************************)
C5_DirectoryIsExpanded ==
    (argv.command = "video" /\ argv.input \in Directories) =>
        /\ InvokedInputs \cap Directories = {}
        /\ (pc = "done" /\ inputFound = "yes" /\ envSteps = 0
            => InvokedInputs = VideoFilesIn(argv.input))

C7_Original ==
    args.command = "extract" =>
        \A n \in 1..Len(invoked) :
            /\ Count(invoked[n], S_vn) = 1
            /\ Count(invoked[n], S_cv) = 0
            /\ invoked[n][Len(invoked[n])] = result

\* C7 as amended: the same when none of the input path, the audio codec and the
\* bitrate is itself the string -vn or -c:v; the last element is the
\* allocated path in every case.
C7_ExtractVector ==
    args.command = "extract" =>
        \A n \in 1..Len(invoked) :
            /\ invoked[n][Len(invoked[n])] = result
            /\ (UserStrings(args) \cap {S_vn, S_cv} = {}
                => /\ Count(invoked[n], S_vn) = 1
                   /\ Count(invoked[n], S_cv) = 0)

\* An extract command with a bitrate has been handed to the encoder.
C7_Witness ==
    /\ args.command = "extract"
    /\ Len(invoked) = 1
    /\ UserStrings(args) \cap {S_vn, S_cv} = {}
    /\ args.bitrate = S_192k
    /\ Len(invoked[1]) = 10

(***************************************************************************)
(* C8. When the input does not exist at the check of main, the process     *)
(* exits with 1: no path is allocated, the encoder converts nothing and    *)
(* the program writes nothing to the filesystem.                           *)
(***************************************************************************)
C8_MissingInputExits ==
    inputFound = "no" =>
        /\ pc = "done"
        /\ exitStatus = 1
        /\ errors = 1
        /\ NothingAllocatedOrRun

\* An extract command whose input is missing has ended.
C8_Witness ==
    /\ inputFound = "no"
    /\ args.command = "extract"
    /\ Normalize(args.input) \notin fs
    /\ pc = "done"

(***************************************************************************)
(* C10. The output path is allocated once, before the encoder is invoked,  *)
(* and not looked at again: the encoder gets that path and -y whatever has *)
(* happened to it since. A file that exists at the invocation is written   *)
(* over only when another process created it after the allocation.         *)
(***************************************************************************)
C10_AllocateOnceThenOverwrite ==
    /\ allocs <= 1
    /\ Len(invoked) <= 1
    /\ (allocs = 1 => probed[Len(probed)] = result
                      /\ Normalize(result) \notin fsAtAlloc)
    /\ \A n \in 1..Len(invoked) :
         /\ allocs = 1
         /\ invoked[n][1] = S_ffmpeg
         /\ invoked[n][2] = S_y
         /\ invoked[n][Len(invoked[n])] = result
    /\ (overwrote => Normalize(result) \in envCreated)

\* The encoder has written over a file another process had just created.
C10_Witness ==
    /\ overwrote
    /\ encoder = "exit0"
    /\ Normalize(result) \in envCreated
    /\ Normalize(result) \notin fsAtAlloc

=============================================================================
